---- MODULE Spec2Model ----
(***************************************************************************)
(* Bug Fixer Agent: the retry-governed generation pipeline of              *)
(* bug_fixer_agent/agent.py and the run controller of                      *)
(* bug_fixer_agent/run.py.                                                 *)
(*                                                                         *)
(* A Python string is modelled as a sequence of chunks: a chunk is one of  *)
(* the five tokens below (API response texts) or a literal message of the  *)
(* program.  The empty string is <<>>.  FENCE stands for the markdown      *)
(* triple-backtick marker, X for any other text.                           *)
(***************************************************************************)
EXTENDS Integers, Sequences, FiniteSets, TLC

\* ------------------------------------------------------------------ bounds
MaxRetries == 3
MaxBugs == 2
MaxTextLen == 3
MaxClock == 2
MaxCalls == 2

\* ------------------------------------------------------------------ texts
FILE == "File: "
FENCE == "<fence>"
NL == "\n"
SP == " "
X == "x"

Tokens == {FILE, FENCE, NL, SP, X}
Whitespace == {NL, SP}

RECURSIVE SeqsUpTo(_, _)
SeqsUpTo(S, n) ==
    IF n = 0 THEN {<<>>}
    ELSE LET shorter == SeqsUpTo(S, n - 1)
         IN  shorter \cup {Append(s, t) : s \in {u \in shorter : Len(u) = n - 1}, t \in S}

RECURSIVE LStrip(_)
LStrip(s) ==
    IF s = <<>> THEN s
    ELSE IF Head(s) \in Whitespace THEN LStrip(Tail(s)) ELSE s

RECURSIVE RStrip(_)
RStrip(s) ==
    IF s = <<>> THEN s
    ELSE IF s[Len(s)] \in Whitespace THEN RStrip(SubSeq(s, 1, Len(s) - 1)) ELSE s

\* str.strip()
Strip(s) == RStrip(LStrip(s))

\* truthiness of a Python string
Truthy(s) == s # <<>>

\* re.search of the pattern ^File: .* with re.MULTILINE: the token FILE opens a line
HasFileLine(s) == \E k \in 1..Len(s) : s[k] = FILE /\ (k = 1 \/ s[k - 1] = NL)

\* s.count of the triple-backtick fence
FenceCount(s) == Cardinality({k \in 1..Len(s) : s[k] = FENCE})

\* ------------------------------------------------- format validator (agent)
\* variant: the fence check rejects instead of warning
FenceStrict(code_content) ==
    /\ Strip(code_content) # <<>>
    /\ HasFileLine(code_content)
    /\ FenceCount(code_content) >= 2

validate_code_snippet_format(code_content) ==
    IF Strip(code_content) = <<>> THEN FALSE
    ELSE IF ~HasFileLine(code_content) THEN FALSE
    ELSE TRUE

\* the advisory logged at agent.py:146-149 when validation reaches the fence check
validate_warns(code_content) ==
    /\ Strip(code_content) # <<>>
    /\ HasFileLine(code_content)
    /\ ~(FenceCount(code_content) >= 2)

\* ------------------------------------------------------------------ state
VARIABLES
    pc,                \* position of the single thread of control
    exit_code,         \* process exit status once pc = "exit" (-1 while running)
    exit_via,          \* how the process ended
    hasApiKey,         \* GOOGLE_API_KEY or GEMINI_API_KEY is set
    max_retries,       \* config.max_retries
    planted_bugs,      \* BugDefinitions.planted_bugs, a sequence of bug names
    setup_done,        \* setup_environment returned True
    snapshot,          \* state of the file codebase_content.txt
    codebase_content,  \* local of run()
    results,           \* BugFixerRunner.results counters
    bug_results,       \* local of run()
    payload,           \* result_payload of process_bug
    attempt,           \* loop variable of the running retry loop
    gen_ret,           \* return value of generate_fix
    ana_ret,           \* return value of generate_failure_analysis_and_suggestions
    report_file,       \* content of bug_fix_report.txt: <<>> or <<report>>
    acct,              \* per-defect record of what the external API saw
    io,                \* run-wide record of file and API use
    analysis,          \* local of generate_fix: the return of analyze_bug
    vtext,             \* argument of a direct call of the format validator
    vresult,           \* <<>> or <<[valid, warned]>>, its result
    now,               \* the clock read by datetime.now()
    renders,           \* returns of direct calls of generate_report, oldest first
    file_state,        \* state of each affected file below project_root
    bug_info,          \* argument of a direct call of the prompt builder
    codebase_blocks,   \* the snapshot text as its sequence of file blocks
    relevant_content,  \* <<>> or <<return of _extract_relevant_files>>
    prompt_text,       \* <<>> or <<return of generate_enhanced_prompt>>
    tree,              \* the directory the inspector walks: what it finds there
    walk,              \* os.walk in process_directory: what is still to visit
    outfile,           \* the text written to the output file of the inspector
    files_processed    \* local of process_directory

runVars == <<pc, exit_code, exit_via, hasApiKey, max_retries, planted_bugs, setup_done,
             snapshot, codebase_content, results, bug_results, payload, attempt,
             gen_ret, ana_ret, report_file, acct, io, analysis>>
valVars == <<vtext, vresult>>
repVars == <<now, renders>>
promptVars == <<bug_info, codebase_blocks, relevant_content, prompt_text>>
inspVars == <<tree, walk, outfile, files_processed>>
otherVars == <<valVars, repVars, promptVars, file_state, inspVars>>
vars == <<runVars, otherVars>>

\* ------------------------------------------------------------------ inputs
\* what one call of client.models.generate_content can do: raise, or return a
\* response whose text is missing or empty (<<>>), or some text
ExceptionMessages == {"timeout", "quota"}

ApiTexts ==
    { <<>>,
      <<NL>>,
      <<X>>,
      <<NL, FILE, X, NL>> }

ApiOutcomes ==
    {[kind |-> "raise", text |-> <<>>, msg |-> m] : m \in ExceptionMessages}
    \cup {[kind |-> "response", text |-> t, msg |-> ""] : t \in ApiTexts}

SnapshotStates == {"absent", "unreadable", "empty", "present"}

\* what Prompts.generate_enhanced_prompt can do: raise, or return a string
PromptResults ==
    {[raised |-> TRUE, prompt |-> <<>>]}
    \cup {[raised |-> FALSE, prompt |-> p] :
            p \in {<<"PROMPT">>, <<"PROMPT", "Error:">>, <<SP>>, <<>>}}

\* ------------------------------------------------------------------ values
NoPayload ==
    [bug_name |-> 0, status |-> "", error |-> <<>>, generated_code_solution |-> <<>>,
     ai_suggestions |-> <<>>, fix_summary |-> <<>>]

NoGenRet == [raised |-> FALSE, code |-> <<>>, keys |-> {}, error |-> <<>>, attempts |-> 0]
NoAnaRet == [keys |-> {}, analysis |-> <<>>, success |-> FALSE]

NoAcct ==
    [genCalls |-> 0, anaCalls |-> 0, anaInvocations |-> 0, genSleeps |-> 0,
     anaSleeps |-> 0, firstValidAt |-> 0, validText |-> <<>>, kinds |-> {},
     promptOk |-> FALSE, prompt_result |-> <<>>, lastError |-> <<>>, lastKind |-> "",
     anaKinds |-> {}, anaText |-> <<>>]

\* no call of analyze_bug yet
NoAnalysis == [keys |-> {}, error |-> <<>>, static_analysis |-> <<>>]

InitResults == [bugs_processed |-> 0, bugs_fixed |-> 0, bugs_failed |-> 0]

\* generate_fix returns ("", {"error": e})
GenFailure(e) ==
    [raised |-> FALSE, code |-> <<>>, keys |-> {"error"}, error |-> e, attempts |-> 0]

\* generate_fix returns (snippet, {"bug_name", "analysis", "attempts", "model_used"})
GenSuccess(snippet, n) ==
    [raised |-> FALSE, code |-> snippet,
     keys |-> {"bug_name", "analysis", "attempts", "model_used"},
     error |-> <<>>, attempts |-> n]

\* ------------------------------------------------------------ catalog
get_bug_by_name(bug_name) == \E k \in 1..Len(planted_bugs) : planted_bugs[k] = bug_name

\* bug_info["files"]: every bug of the model names the same two files
BugFiles == <<"backend/todos/views.py", "frontend/src/services/api.ts">>

\* ------------------------------------------------------------ static analysis
\* what analyze_file can find at a path
FileStates == {"ok", "missing", "unreadable", "unsupported", "unparsable"}

AllFilesOk == [f \in {BugFiles[k] : k \in 1..Len(BugFiles)} |-> "ok"]

AnalysisKeys == {"file_type", "imports", "functions", "syntax_errors", "file_path"}

\* CodeAnalyzer.analyze_file: a dict with the single key "error", or the
\* result of the language analysis, which lists what it could not parse
analyze_file(st) ==
    IF st = "missing"
    THEN [keys |-> {"error"}, error |-> <<"File does not exist">>, syntax_errors |-> <<>>]
    ELSE IF st = "unreadable"
    THEN [keys |-> {"error"}, error |-> <<"read failed">>, syntax_errors |-> <<>>]
    ELSE IF st = "unsupported"
    THEN [keys |-> {"error"}, error |-> <<"Unsupported file type">>, syntax_errors |-> <<>>]
    ELSE IF st = "unparsable"
    THEN [keys |-> AnalysisKeys, error |-> <<>>, syntax_errors |-> <<"Syntax error">>]
    ELSE [keys |-> AnalysisKeys, error |-> <<>>, syntax_errors |-> <<>>]

\* variant: the first path that cannot be analysed fails the whole analysis
analyze_bug_strict(bug_name) ==
    IF ~get_bug_by_name(bug_name) \/ \E k \in 1..Len(BugFiles) : file_state[BugFiles[k]] # "ok"
    THEN [keys |-> {"error"}, error |-> <<"Could not analyze the affected files">>,
          static_analysis |-> <<>>]
    ELSE [keys |-> {"bug_info", "static_analysis", "context"}, error |-> <<>>,
          static_analysis |-> [k \in 1..Len(BugFiles) |->
              [path |-> BugFiles[k], entry |-> analyze_file(file_state[BugFiles[k]])]]]

\* BugFixerAgent.analyze_bug
analyze_bug(bug_name) ==
    IF ~get_bug_by_name(bug_name)
    THEN [keys |-> {"error"}, error |-> <<"Bug not found in definitions">>,
          static_analysis |-> <<>>]
    ELSE [keys |-> {"bug_info", "static_analysis", "context"}, error |-> <<>>,
          static_analysis |-> [k \in 1..Len(BugFiles) |->
              [path |-> BugFiles[k], entry |-> analyze_file(file_state[BugFiles[k]])]]]

\* ------------------------------------------------------------ retry loops
\* variant: the loop admits one attempt more
LoopHasNextInclusive(a) == a <= max_retries

LoopHasNext(a) == a < max_retries

\* variant: gives up one attempt early
IsLastAttemptEarly(a) == a >= max_retries - 2

IsLastAttempt(a) == a = max_retries - 1

\* variant: an exception is retried like an empty response, on every attempt
CanRetryAfterErrorAlways(a) == TRUE

CanRetryAfterError(a) == a < max_retries - 1

\* variant: reports the zero-based loop index
AttemptNumberZeroBased(a) == a

AttemptNumber(a) == a + 1

\* variant: only the marker of a build error is looked for
PromptInvalidMarkerOnly(prompt) == \E k \in 1..Len(prompt) : prompt[k] = "Error:"

PromptInvalid(prompt) ==
    \/ \E k \in 1..Len(prompt) : prompt[k] = "Error:"
    \/ ~Truthy(Strip(prompt))

\* how the format-independent reading of a response classifies it
ResponseKind(o) ==
    IF o.kind = "raise" THEN "exception"
    ELSE IF o.text = <<>> THEN "empty"
    ELSE IF HasFileLine(Strip(o.text)) THEN "valid"
    ELSE "invalid"

\* variant: an empty response on the last attempt leaves the loop without a
\* return
GenIterationFallsThrough(o, a) ==
    IF o.kind = "raise" THEN
        IF CanRetryAfterError(a)
        THEN [returns |-> FALSE, ret |-> NoGenRet, sleeps |-> 1]
        ELSE [returns |-> TRUE, ret |-> GenFailure(<<"API call failed: ", o.msg>>),
              sleeps |-> 0]
    ELSE IF ~Truthy(o.text) THEN
        [returns |-> FALSE, ret |-> NoGenRet, sleeps |-> IF IsLastAttempt(a) THEN 0 ELSE 1]
    ELSE IF ~validate_code_snippet_format(Strip(o.text)) THEN
        IF IsLastAttempt(a)
        THEN [returns |-> TRUE,
              ret |-> GenFailure(<<"No valid code snippet generated after max retries">>),
              sleeps |-> 0]
        ELSE [returns |-> FALSE, ret |-> NoGenRet, sleeps |-> 1]
    ELSE [returns |-> TRUE, ret |-> GenSuccess(Strip(o.text), AttemptNumber(a)), sleeps |-> 0]

\* variant: the text of an invalid last attempt is returned with the error
GenIterationKeepsText(o, a) ==
    IF o.kind = "raise" THEN
        IF CanRetryAfterError(a)
        THEN [returns |-> FALSE, ret |-> NoGenRet, sleeps |-> 1]
        ELSE [returns |-> TRUE, ret |-> GenFailure(<<"API call failed: ", o.msg>>),
              sleeps |-> 0]
    ELSE IF ~Truthy(o.text) THEN
        IF IsLastAttempt(a)
        THEN [returns |-> TRUE, ret |-> GenFailure(<<"No response from API after max retries">>),
              sleeps |-> 0]
        ELSE [returns |-> FALSE, ret |-> NoGenRet, sleeps |-> 1]
    ELSE IF ~validate_code_snippet_format(Strip(o.text)) THEN
        IF IsLastAttempt(a)
        THEN [returns |-> TRUE,
              ret |-> [GenFailure(<<"No valid code snippet generated after max retries">>)
                          EXCEPT !.code = Strip(o.text)],
              sleeps |-> 0]
        ELSE [returns |-> FALSE, ret |-> NoGenRet, sleeps |-> 1]
    ELSE [returns |-> TRUE, ret |-> GenSuccess(Strip(o.text), AttemptNumber(a)), sleeps |-> 0]

\* one iteration of the loop of generate_fix on API outcome o:
\* [returns, ret, sleeps]
GenIteration(o, a) ==
    IF o.kind = "raise" THEN
        IF CanRetryAfterError(a)
        THEN [returns |-> FALSE, ret |-> NoGenRet, sleeps |-> 1]
        ELSE [returns |-> TRUE, ret |-> GenFailure(<<"API call failed: ", o.msg>>),
              sleeps |-> 0]
    ELSE IF ~Truthy(o.text) THEN
        IF IsLastAttempt(a)
        THEN [returns |-> TRUE, ret |-> GenFailure(<<"No response from API after max retries">>),
              sleeps |-> 0]
        ELSE [returns |-> FALSE, ret |-> NoGenRet, sleeps |-> 1]
    ELSE IF ~validate_code_snippet_format(Strip(o.text)) THEN
        IF IsLastAttempt(a)
        THEN [returns |-> TRUE,
              ret |-> GenFailure(<<"No valid code snippet generated after max retries">>),
              sleeps |-> 0]
        ELSE [returns |-> FALSE, ret |-> NoGenRet, sleeps |-> 1]
    ELSE [returns |-> TRUE, ret |-> GenSuccess(Strip(o.text), AttemptNumber(a)), sleeps |-> 0]

\* variant: the analyst validates the format as the generator does
AnaIterationValidating(o) ==
    IF o.kind = "raise" THEN [returns |-> FALSE, ret |-> NoAnaRet, sleeps |-> 1]
    ELSE IF Truthy(o.text) /\ validate_code_snippet_format(Strip(o.text))
    THEN [returns |-> TRUE,
          ret |-> [keys |-> {"analysis", "success"}, analysis |-> Strip(o.text),
                   success |-> TRUE],
          sleeps |-> 0]
    ELSE [returns |-> FALSE, ret |-> NoAnaRet, sleeps |-> 1]

\* one iteration of the loop of generate_failure_analysis_and_suggestions
AnaIteration(o) ==
    IF o.kind = "raise" THEN [returns |-> FALSE, ret |-> NoAnaRet, sleeps |-> 1]
    ELSE IF Truthy(o.text)
    THEN [returns |-> TRUE,
          ret |-> [keys |-> {"analysis", "success"}, analysis |-> Strip(o.text),
                   success |-> TRUE],
          sleeps |-> 0]
    ELSE [returns |-> FALSE, ret |-> NoAnaRet, sleeps |-> 1]

\* the return after the loop of the analyst: a dict with the single key "analysis"
AnalystExhausted ==
    [keys |-> {"analysis"},
     analysis |-> <<"Failed to generate intelligent suggestions due to API error.">>,
     success |-> FALSE]

\* ------------------------------------------------------------ process_bug
\* analysis_metadata.get("error", default)
MetaGetError(meta, default) == IF "error" \in meta.keys THEN meta.error ELSE default

\* get_fix_summary: the view stored under "fix_summary"
get_fix_summary(bug_name, corrected_code_snippet, analysis_metadata) ==
    [bug_name |-> bug_name, corrected_code_snippet |-> corrected_code_snippet,
     attempts |-> analysis_metadata.attempts]

\* variant: an empty snippet leaves the status as it was
PayloadAfterFixKeepsStatus(p, ret) ==
    IF ret.raised THEN
        [p EXCEPT !.status = "error", !.error = ret.error]
    ELSE IF ~Truthy(ret.code) THEN
        [p EXCEPT !.generated_code_solution = ret.code,
                  !.error = MetaGetError(ret, <<"No code solution generated.">>)]
    ELSE
        [p EXCEPT !.generated_code_solution = ret.code,
                  !.status = "solution_generated",
                  !.fix_summary = <<get_fix_summary(p.bug_name, ret.code, ret)>>]

\* variant: the summary view is attached to every outcome
PayloadAfterFixAlwaysSummary(p, ret) ==
    IF ret.raised THEN
        [p EXCEPT !.status = "error", !.error = ret.error]
    ELSE IF ~Truthy(ret.code) THEN
        [p EXCEPT !.generated_code_solution = ret.code,
                  !.status = "failed_to_generate_solution",
                  !.error = MetaGetError(ret, <<"No code solution generated.">>),
                  !.fix_summary = <<get_fix_summary(p.bug_name, ret.code, ret)>>]
    ELSE
        [p EXCEPT !.generated_code_solution = ret.code,
                  !.status = "solution_generated",
                  !.fix_summary = <<get_fix_summary(p.bug_name, ret.code, ret)>>]

\* process_bug from the return of generate_fix to the test of the status.
\* The first branch is the except clause; generate_fix and get_fix_summary
\* catch what they call, so no return of generate_fix has raised = TRUE.
PayloadAfterFix(p, ret) ==
    IF ret.raised THEN
        [p EXCEPT !.status = "error", !.error = ret.error]
    ELSE IF ~Truthy(ret.code) THEN
        [p EXCEPT !.generated_code_solution = ret.code,
                  !.status = "failed_to_generate_solution",
                  !.error = MetaGetError(ret, <<"No code solution generated.">>)]
    ELSE
        [p EXCEPT !.generated_code_solution = ret.code,
                  !.status = "solution_generated",
                  !.fix_summary = <<get_fix_summary(p.bug_name, ret.code, ret)>>]

\* variant: the analyst is consulted for every defect
NeedsFailureAnalysisAlways(p) == TRUE

NeedsFailureAnalysis(p) == p.status # "solution_generated"

\* suggestion_response["success"] on a dict without that key raises KeyError
SuggestionLookupFaults(resp) == "success" \notin resp.keys

PayloadAfterAnalysis(p, resp) ==
    IF resp.success
    THEN [p EXCEPT !.ai_suggestions = resp.analysis]
    ELSE [p EXCEPT !.ai_suggestions =
                      <<"Could not generate intelligent suggestions due to API error.">>]

\* ------------------------------------------------------------ run counters
IsFixed(result) == result.status = "solution_generated"

\* variant: every outcome is counted as fixed
UpdateStatisticsAllFixed(res, result) ==
    [res EXCEPT !.bugs_processed = @ + 1, !.bugs_fixed = @ + 1]

UpdateStatistics(res, result) ==
    [res EXCEPT !.bugs_processed = @ + 1,
                !.bugs_fixed = IF IsFixed(result) THEN @ + 1 ELSE @,
                !.bugs_failed = IF IsFixed(result) THEN @ ELSE @ + 1]

\* variant: success as soon as one solution was generated
RunSucceededAnyFixed(res) == res.bugs_fixed > 0

RunSucceeded(res) == res.bugs_failed = 0

\* main: sys.exit(0) on success, sys.exit(1) otherwise
ExitStatus(success) == IF success THEN 0 ELSE 1

\* an exception that leaves main uncaught ends the interpreter with status 1
UncaughtExitStatus == 1

\* ------------------------------------------------------------ report
\* variant: only the status failed_to_generate_solution counts as a failure
SolutionGeneratedCountLenient(rs) ==
    Cardinality({k \in 1..Len(rs) : rs[k].status # "failed_to_generate_solution"})

SolutionGeneratedCount(rs) ==
    Cardinality({k \in 1..Len(rs) : rs[k].status = "solution_generated"})

\* the division of the summary line faults on an empty sequence
SummaryFaults(rs) == Len(rs) = 0

\* count/len*100 printed with one decimal, in tenths of a percent
SuccessRate(count, n) == (2000 * count + n) \div (2 * n)

ReportSection(k, r) ==
    IF r.status = "solution_generated"
    THEN [number |-> k, bug_name |-> r.bug_name, status |-> r.status,
          error |-> <<>>, code_block |-> "generated",
          code |-> r.generated_code_solution,
          suggestions_block |-> FALSE, suggestions |-> <<>>]
    ELSE [number |-> k, bug_name |-> r.bug_name, status |-> r.status,
          error |-> r.error,
          code_block |-> IF Truthy(r.generated_code_solution) THEN "attempted" ELSE "none",
          code |-> r.generated_code_solution,
          suggestions_block |-> Truthy(r.ai_suggestions),
          suggestions |-> r.ai_suggestions]

\* variant: the newest outcome is printed first
generate_report_newest_first(rs) ==
    LET n == Len(rs)
        solution_generated_count == SolutionGeneratedCount(rs)
        failed_count == n - solution_generated_count
    IN  [total |-> n,
         solution_generated_count |-> solution_generated_count,
         failed_count |-> failed_count,
         success_rate |-> IF n = 0 THEN 0 ELSE SuccessRate(solution_generated_count, n),
         sections |-> [k \in 1..n |-> ReportSection(k, rs[n + 1 - k])],
         recommendations |-> IF failed_count > 0 THEN "review_failures"
                             ELSE "all_succeeded"]

\* generate_report: the lines that depend on the outcomes
generate_report(rs) ==
    LET n == Len(rs)
        solution_generated_count == SolutionGeneratedCount(rs)
        failed_count == n - solution_generated_count
    IN  [total |-> n,
         solution_generated_count |-> solution_generated_count,
         failed_count |-> failed_count,
         success_rate |-> IF n = 0 THEN 0 ELSE SuccessRate(solution_generated_count, n),
         sections |-> [k \in 1..n |-> ReportSection(k, rs[k])],
         recommendations |-> IF failed_count > 0 THEN "review_failures"
                             ELSE "all_succeeded"]

\* the header lines: the time of generation and the model
ReportHeader(t) == [generated |-> t, model_used |-> "gemini-2.5-flash"]

\* the technical details block, printed from the configuration
TechnicalDetails == [model |-> "gemini-2.5-flash", max_retries |-> max_retries]

\* the text returned by generate_report at time t
RenderedReport(rs, t) ==
    [header |-> ReportHeader(t), body |-> generate_report(rs),
     technical |-> TechnicalDetails]

\* ------------------------------------------------------------------ Init
Catalogs == {[k \in 1..n |-> k] : n \in 0..MaxBugs}

RunInit ==
    /\ pc = "main"
    /\ exit_code = -1
    /\ exit_via = ""
    /\ hasApiKey \in BOOLEAN
    /\ max_retries \in 0..MaxRetries
    /\ planted_bugs \in Catalogs
    /\ setup_done = FALSE
    /\ snapshot = "absent"
    /\ codebase_content = <<>>
    /\ results = InitResults
    /\ bug_results = <<>>
    /\ payload = NoPayload
    /\ attempt = 0
    /\ gen_ret = NoGenRet
    /\ ana_ret = NoAnaRet
    /\ report_file = <<>>
    /\ acct = NoAcct
    /\ analysis = NoAnalysis
    /\ io = [apiCalled |-> FALSE, snapshotReads |-> 0, reportWrites |-> 0,
             snapshotDeletes |-> 0]

\* a bug record before any direct call of the prompt builder
NoBugInfo ==
    [name |-> "", description |-> "", root_cause |-> "", fix_summary |-> "",
     files |-> <<>>]

NoValidatorCall == vtext = <<>> /\ vresult = <<>>
NoReportCall == now = 0 /\ renders = <<>>
NoPromptCall ==
    /\ bug_info = NoBugInfo
    /\ codebase_blocks = <<>>
    /\ relevant_content = <<>>
    /\ prompt_text = <<>>

\* ------------------------------------------------------------ inspector
\* the line of stars that frames the path of a file in the snapshot
HEADER_LINE == "****"

\* the tree the inspector walks, every entry by the components of its path
\* below the root; the output file lies in the root, under a name of the
\* caller's choice that no default pattern matches
RootDir == <<>>
OutputFile == <<"out.txt">>

SubDirs(d) ==
    IF d = RootDir THEN << <<"node_modules">>, <<"src">> >>
    ELSE IF d = <<"src">> THEN << <<"src", "gen">> >>
    ELSE <<>>

FilesIn(d) ==
    IF d = RootDir THEN << <<"app.py">>, OutputFile >>
    ELSE IF d = <<"node_modules">> THEN << <<"node_modules", "m.js">> >>
    ELSE IF d = <<"src">> THEN << <<"src", "b.ts">>, <<"src", "img.png">> >>
    ELSE << <<"src", "gen", "c.py">> >>

AllDirs == {RootDir, <<"node_modules">>, <<"src">>, <<"src", "gen">>}

RangeOf(q) == {q[k] : k \in 1..Len(q)}

AllFiles == UNION {RangeOf(FilesIn(d)) : d \in AllDirs}

\* what open and read of a file can do: give text, fail to decode, fail
ReadStates == {"text", "binary", "error"}

\* what the default patterns match in this tree
DefaultIgnored == {<<"node_modules">>}

BACKSLASH == "\\"
SLASH == "/"

\* str(relative path) on a platform whose separator is sep
RECURSIVE NativePath(_, _)
NativePath(components, sep) ==
    IF Len(components) <= 1 THEN components
    ELSE <<Head(components), sep>> \o NativePath(Tail(components), sep)

\* .replace of every backslash by a slash
ReplaceBackslash(str) == [k \in 1..Len(str) |-> IF str[k] = BACKSLASH THEN SLASH ELSE str[k]]

\* relative_file_path_str
RelativePathStr(components) == ReplaceBackslash(NativePath(components, tree.sep))

\* spec.match_file on a file, or on a directory with a slash appended
MatchFile(entry) == entry \in tree.ignored

\* the content of a file of the tree that is not the output file
FileContent(f) == <<"content", f[Len(f)]>>

\* what infile.read() can return: for the output file, which is open for
\* writing during the walk, the part of the written text that has reached
\* the file
ContentsRead(f) ==
    IF f = OutputFile THEN {SubSeq(outfile, 1, n) : n \in 0..Len(outfile)}
    ELSE {FileContent(f)}

\* what one iteration of the loop over filenames writes for a file that is
\* not ignored: the whole block after a read that gave text, else nothing
WrittenFor(f, content) ==
    IF tree.read[f] = "text"
    THEN <<HEADER_LINE, NL, FILE>> \o RelativePathStr(f) \o <<NL, HEADER_LINE, NL, NL>>
             \o content \o <<NL, NL>>
    ELSE <<>>

NoInspectorCall ==
    /\ tree = [sep |-> SLASH, read |-> [f \in AllFiles |-> "text"], ignored |-> DefaultIgnored \cup {OutputFile}]
    /\ walk = [dirs |-> <<>>, files |-> <<>>, started |-> FALSE]
    /\ outfile = <<>>
    /\ files_processed = 0

Init ==
    /\ RunInit
    /\ file_state = AllFilesOk
    /\ NoValidatorCall
    /\ NoReportCall
    /\ NoPromptCall
    /\ NoInspectorCall

\* the process ends with status c
Exit(c, via) ==
    /\ pc' = "exit"
    /\ exit_code' = c
    /\ exit_via' = via

\* ------------------------------------------------------------------ main
\* main: BugFixerRunner(); Config raises without a credential, the agent re-raises
\* a failure to build the API client
Construct ==
    /\ pc = "main"
    /\ \E clientOk \in BOOLEAN :
         IF ~hasApiKey THEN Exit(UncaughtExitStatus, "ValueError")
         ELSE IF ~clientOk THEN Exit(UncaughtExitStatus, "ClientError")
         ELSE /\ pc' = "run"
              /\ UNCHANGED <<exit_code, exit_via>>
    /\ results' = InitResults
    /\ UNCHANGED <<hasApiKey, max_retries, planted_bugs, setup_done, snapshot,
                   codebase_content, bug_results, payload, attempt, gen_ret, ana_ret,
                   report_file, acct, io, analysis, otherVars>>

\* run: setup_environment; the inspector leaves the snapshot file behind
SetupEnvironment ==
    /\ pc = "run"
    /\ \E ok \in BOOLEAN, file \in SnapshotStates :
         IF ok
         THEN /\ setup_done' = TRUE
              /\ snapshot' = file
              /\ pc' = "load"
              /\ UNCHANGED <<exit_code, exit_via>>
         ELSE /\ Exit(ExitStatus(FALSE), "setup_failed")
              /\ UNCHANGED <<setup_done, snapshot>>
    /\ UNCHANGED <<hasApiKey, max_retries, planted_bugs, codebase_content, results,
                   bug_results, payload, attempt, gen_ret, ana_ret, report_file, acct,
                   io, analysis, otherVars>>

\* variant: a failed read yields its message as the content
LoadedContentWithMessage(file) ==
    IF file = "present" THEN <<"SNAPSHOT">>
    ELSE IF file = "unreadable" THEN <<"Error loading codebase content">>
    ELSE <<>>

\* load_codebase_content: "" when the file is absent or unreadable
LoadedContent(file) == IF file = "present" THEN <<"SNAPSHOT">> ELSE <<>>

\* variant: the loaded content is not checked
ContentUsableAlways(content) == TRUE

ContentUsable(content) == Truthy(content)

LoadCodebaseContent ==
    /\ pc = "load"
    /\ LET content == LoadedContent(snapshot)
       IN  /\ io' = [io EXCEPT !.snapshotReads =
                                  IF snapshot = "absent" THEN @ ELSE @ + 1]
           /\ IF ContentUsable(content)
              THEN /\ codebase_content' = content
                   /\ pc' = "loop"
                   /\ UNCHANGED <<exit_code, exit_via>>
              ELSE /\ Exit(ExitStatus(FALSE), "load_failed")
                   /\ UNCHANGED codebase_content
    /\ bug_results' = <<>>
    /\ UNCHANGED <<hasApiKey, max_retries, planted_bugs, setup_done, snapshot, results,
                   payload, attempt, gen_ret, ana_ret, report_file, acct, analysis, otherVars>>

\* ------------------------------------------------------------------ loop
\* variant: the catalog is walked from its end
NextBugFromEnd(done) == planted_bugs[Len(planted_bugs) - Len(done)]

\* the element the for loop of run() takes after the outcomes in done
NextBug(done) == planted_bugs[Len(done) + 1]

\* result_payload as process_bug first builds it
InitialPayload(bug_name) == [NoPayload EXCEPT !.bug_name = bug_name, !.status = "initial"]

\* generate_fix up to its first API call: analyze_bug, then the prompt
GenerateFixEntry(bug_name) ==
    /\ LET an == analyze_bug(bug_name)
       IN  /\ analysis' = an
           /\ \E pr \in PromptResults :
                IF "error" \in an.keys THEN
                    /\ gen_ret' = GenFailure(an.error)
                    /\ acct' = NoAcct
                    /\ pc' = "gen_ret"
                ELSE IF pr.raised THEN
                    /\ gen_ret' = GenFailure(<<"Error generating prompt: ", "e">>)
                    /\ acct' = [NoAcct EXCEPT !.prompt_result = <<pr>>]
                    /\ pc' = "gen_ret"
                ELSE IF PromptInvalid(pr.prompt) THEN
                    /\ gen_ret' = GenFailure(<<"Invalid prompt generated">>)
                    /\ acct' = [NoAcct EXCEPT !.prompt_result = <<pr>>]
                    /\ pc' = "gen_ret"
                ELSE
                    /\ gen_ret' = NoGenRet
                    /\ acct' = [NoAcct EXCEPT !.promptOk = TRUE, !.prompt_result = <<pr>>]
                    /\ pc' = "gen_loop"
    /\ attempt' = 0

\* the next bug of the for loop: process_bug up to the first API call of
\* generate_fix
BeginBug ==
    /\ pc = "loop"
    /\ Len(bug_results) < Len(planted_bugs)
    /\ LET bug_name == NextBug(bug_results)
       IN  /\ payload' = InitialPayload(bug_name)
           /\ GenerateFixEntry(bug_name)
    /\ ana_ret' = NoAnaRet
    /\ UNCHANGED <<exit_code, exit_via, hasApiKey, max_retries, planted_bugs, setup_done,
                   snapshot, codebase_content, results, bug_results, report_file, io,
                   otherVars>>

\* one iteration of the retry loop of generate_fix: one API call
GenAttempt ==
    /\ pc = "gen_loop"
    /\ LoopHasNext(attempt)
    /\ \E o \in ApiOutcomes :
         LET it == GenIteration(o, attempt)
             n == acct.genCalls + 1
             firstValid == acct.firstValidAt = 0 /\ ResponseKind(o) = "valid"
         IN  /\ acct' = [acct EXCEPT !.genCalls = n,
                                     !.genSleeps = @ + it.sleeps,
                                     !.kinds = @ \cup {ResponseKind(o)},
                                     !.lastError = IF o.kind = "raise" THEN <<o.msg>>
                                                   ELSE <<>>,
                                     !.lastKind = ResponseKind(o),
                                     !.firstValidAt = IF firstValid THEN n ELSE @,
                                     !.validText = IF firstValid THEN o.text ELSE @]
             /\ IF it.returns
                THEN /\ gen_ret' = it.ret
                     /\ pc' = "gen_ret"
                     /\ UNCHANGED attempt
                ELSE /\ attempt' = attempt + 1
                     /\ UNCHANGED <<gen_ret, pc>>
    /\ io' = [io EXCEPT !.apiCalled = TRUE]
    /\ UNCHANGED <<exit_code, exit_via, hasApiKey, max_retries, planted_bugs, setup_done,
                   snapshot, codebase_content, results, bug_results, payload, ana_ret,
                   report_file, analysis, otherVars>>

\* the loop of generate_fix ends without a return
GenFallThrough ==
    /\ pc = "gen_loop"
    /\ ~LoopHasNext(attempt)
    /\ gen_ret' = GenFailure(<<"Failed to generate fix after all retries">>)
    /\ pc' = "gen_ret"
    /\ UNCHANGED <<exit_code, exit_via, hasApiKey, max_retries, planted_bugs, setup_done,
                   snapshot, codebase_content, results, bug_results, payload, attempt,
                   ana_ret, report_file, acct, io, analysis, otherVars>>

\* process_bug after generate_fix: status, and on failure the call of the
\* analyst, whose prompt is built by Prompts before its first API call
ProcessBugAfterFix ==
    /\ pc = "gen_ret"
    /\ LET p == PayloadAfterFix(payload, gen_ret)
       IN  /\ payload' = p
           /\ IF NeedsFailureAnalysis(p)
              THEN /\ acct' = [acct EXCEPT !.anaInvocations = @ + 1]
                   /\ pc' = "ana_loop"
              ELSE /\ pc' = "bug_ret"
                   /\ UNCHANGED acct
    /\ attempt' = 0
    /\ UNCHANGED <<exit_code, exit_via, hasApiKey, max_retries, planted_bugs, setup_done,
                   snapshot, codebase_content, results, bug_results, gen_ret, ana_ret,
                   report_file, io, analysis, otherVars>>

\* one iteration of the retry loop of the analyst: one API call
AnaAttempt ==
    /\ pc = "ana_loop"
    /\ LoopHasNext(attempt)
    /\ \E o \in ApiOutcomes :
         LET it == AnaIteration(o)
         IN  /\ acct' = [acct EXCEPT !.anaCalls = @ + 1, !.anaSleeps = @ + it.sleeps,
                                     !.anaKinds = @ \cup {ResponseKind(o)},
                                     !.anaText = IF Truthy(o.text) THEN o.text ELSE @]
             /\ IF it.returns
                THEN /\ ana_ret' = it.ret
                     /\ pc' = "ana_ret"
                     /\ UNCHANGED attempt
                ELSE /\ attempt' = attempt + 1
                     /\ UNCHANGED <<ana_ret, pc>>
    /\ io' = [io EXCEPT !.apiCalled = TRUE]
    /\ UNCHANGED <<exit_code, exit_via, hasApiKey, max_retries, planted_bugs, setup_done,
                   snapshot, codebase_content, results, bug_results, payload, gen_ret,
                   report_file, analysis, otherVars>>

\* the loop of the analyst ends without a return
AnaFallThrough ==
    /\ pc = "ana_loop"
    /\ ~LoopHasNext(attempt)
    /\ ana_ret' = AnalystExhausted
    /\ pc' = "ana_ret"
    /\ UNCHANGED <<exit_code, exit_via, hasApiKey, max_retries, planted_bugs, setup_done,
                   snapshot, codebase_content, results, bug_results, payload, attempt,
                   gen_ret, report_file, acct, io, analysis, otherVars>>

\* process_bug after the analyst: the lookup of "success" and the suggestions
ProcessBugAfterAnalysis ==
    /\ pc = "ana_ret"
    /\ IF SuggestionLookupFaults(ana_ret)
       THEN /\ Exit(UncaughtExitStatus, "KeyError")
            /\ UNCHANGED payload
       ELSE /\ payload' = PayloadAfterAnalysis(payload, ana_ret)
            /\ pc' = "bug_ret"
            /\ UNCHANGED <<exit_code, exit_via>>
    /\ UNCHANGED <<hasApiKey, max_retries, planted_bugs, setup_done, snapshot,
                   codebase_content, results, bug_results, attempt, gen_ret, ana_ret,
                   report_file, acct, io, analysis, otherVars>>

\* run: the result of process_bug is appended and counted
RecordResult ==
    /\ pc = "bug_ret"
    /\ bug_results' = Append(bug_results, payload)
    /\ results' = UpdateStatistics(results, payload)
    /\ pc' = "loop"
    /\ payload' = NoPayload
    /\ gen_ret' = NoGenRet
    /\ ana_ret' = NoAnaRet
    /\ acct' = NoAcct
    /\ UNCHANGED <<exit_code, exit_via, hasApiKey, max_retries, planted_bugs, setup_done,
                   snapshot, codebase_content, attempt, report_file, io, analysis, otherVars>>

\* run after the loop: generate_report and the write of the report file
Reporting ==
    /\ pc = "loop"
    /\ Len(bug_results) = Len(planted_bugs)
    /\ IF SummaryFaults(bug_results)
       THEN /\ Exit(UncaughtExitStatus, "ZeroDivisionError")
            /\ UNCHANGED <<report_file, io>>
       ELSE /\ report_file' = <<RenderedReport(bug_results, now)>>
            /\ io' = [io EXCEPT !.reportWrites = @ + 1]
            /\ pc' = "cleanup"
            /\ UNCHANGED <<exit_code, exit_via>>
    /\ UNCHANGED <<hasApiKey, max_retries, planted_bugs, setup_done, snapshot,
                   codebase_content, results, bug_results, payload, attempt, gen_ret,
                   ana_ret, acct, analysis, otherVars>>

\* variant: cleanup never finds the snapshot file
SnapshotExistsNever(file) == FALSE

\* os.path.exists(codebase_content_path)
SnapshotExists(file) == file # "absent"

\* run: cleanup of the snapshot file, the return value, and the exit of main
CleanupAndExit ==
    /\ pc = "cleanup"
    /\ IF SnapshotExists(snapshot)
       THEN /\ snapshot' = "absent"
            /\ io' = [io EXCEPT !.snapshotDeletes = @ + 1]
       ELSE UNCHANGED <<snapshot, io>>
    /\ Exit(ExitStatus(RunSucceeded(results)), "completed")
    /\ UNCHANGED <<hasApiKey, max_retries, planted_bugs, setup_done, codebase_content,
                   results, bug_results, payload, attempt, gen_ret, ana_ret, report_file,
                   acct, analysis, otherVars>>

Next ==
    \/ Construct
    \/ SetupEnvironment
    \/ LoadCodebaseContent
    \/ BeginBug
    \/ GenAttempt
    \/ GenFallThrough
    \/ ProcessBugAfterFix
    \/ AnaAttempt
    \/ AnaFallThrough
    \/ ProcessBugAfterAnalysis
    \/ RecordResult
    \/ Reporting
    \/ CleanupAndExit

Spec == Init /\ [][Next]_vars

\* ------------------------------------------- direct calls of the validator
ValidatorInputs == SeqsUpTo(Tokens, MaxTextLen)

InitValidate ==
    /\ RunInit
    /\ hasApiKey = TRUE
    /\ max_retries = 1
    /\ planted_bugs = <<>>
    /\ vtext \in ValidatorInputs
    /\ vresult = <<>>
    /\ file_state = AllFilesOk
    /\ NoReportCall
    /\ NoPromptCall
    /\ NoInspectorCall

Validate ==
    /\ vresult = <<>>
    /\ vresult' = <<[valid |-> validate_code_snippet_format(vtext),
                     warned |-> validate_warns(vtext)]>>
    /\ UNCHANGED <<vtext, runVars, repVars, promptVars, file_state, inspVars>>

NextValidate == Validate

SpecValidate == InitValidate /\ [][NextValidate]_vars

\* ------------------------------------------- direct calls of generate_report
\* outcomes as process_bug builds them: a generated solution, a failure with
\* the suggestions of the analyst, and the payload of the except clause
OutcomesOf(b) ==
    LET p == [NoPayload EXCEPT !.bug_name = b]
    IN  { PayloadAfterFix(p, GenSuccess(<<FILE, X>>, 1)),
          PayloadAfterAnalysis(
              PayloadAfterFix(p, GenFailure(<<"No response from API after max retries">>)),
              [keys |-> {"analysis", "success"}, analysis |-> <<X>>, success |-> TRUE]),
          PayloadAfterFix(p, [NoGenRet EXCEPT !.raised = TRUE, !.error = <<"boom">>]) }

Outcomes == UNION {OutcomesOf(b) : b \in 1..MaxBugs}

OutcomeSeqs == UNION {[1..n -> Outcomes] : n \in 0..MaxBugs}

RECURSIVE StatisticsOf(_)
StatisticsOf(rs) ==
    IF rs = <<>> THEN InitResults
    ELSE UpdateStatistics(StatisticsOf(SubSeq(rs, 1, Len(rs) - 1)), rs[Len(rs)])

InitReport ==
    /\ pc = "report"
    /\ exit_code = -1
    /\ exit_via = ""
    /\ hasApiKey = TRUE
    /\ max_retries = MaxRetries
    /\ planted_bugs = <<>>
    /\ setup_done = TRUE
    /\ snapshot = "present"
    /\ codebase_content = <<"SNAPSHOT">>
    /\ bug_results \in OutcomeSeqs
    /\ results = StatisticsOf(bug_results)
    /\ payload = NoPayload
    /\ attempt = 0
    /\ gen_ret = NoGenRet
    /\ ana_ret = NoAnaRet
    /\ report_file = <<>>
    /\ acct = NoAcct
    /\ analysis = NoAnalysis
    /\ io = [apiCalled |-> FALSE, snapshotReads |-> 0, reportWrites |-> 0,
             snapshotDeletes |-> 0]
    /\ file_state = AllFilesOk
    /\ NoValidatorCall
    /\ NoReportCall
    /\ NoPromptCall
    /\ NoInspectorCall

\* time passes between two calls
Tick ==
    /\ now < MaxClock
    /\ now' = now + 1
    /\ UNCHANGED <<runVars, valVars, renders, promptVars, file_state, inspVars>>

\* variant: rendering counts the bugs it prints as processed
GenerateReportCallCounting ==
    /\ pc = "report"
    /\ Len(renders) < MaxCalls
    /\ renders' = Append(renders,
           IF SummaryFaults(bug_results)
           THEN [raised |-> TRUE, text |-> <<>>]
           ELSE [raised |-> FALSE, text |-> <<RenderedReport(bug_results, now)>>])
    /\ results' = [results EXCEPT !.bugs_processed = @ + Len(bug_results)]
    /\ UNCHANGED <<pc, exit_code, exit_via, hasApiKey, max_retries, planted_bugs,
                   setup_done, snapshot, codebase_content, bug_results, payload, attempt,
                   gen_ret, ana_ret, report_file, acct, io, analysis, valVars, now,
                   promptVars, file_state, inspVars>>

\* one call generate_report(bug_results): it raises or returns the text
GenerateReportCall ==
    /\ pc = "report"
    /\ Len(renders) < MaxCalls
    /\ renders' = Append(renders,
           IF SummaryFaults(bug_results)
           THEN [raised |-> TRUE, text |-> <<>>]
           ELSE [raised |-> FALSE, text |-> <<RenderedReport(bug_results, now)>>])
    /\ UNCHANGED <<runVars, valVars, now, promptVars, file_state, inspVars>>

NextReport ==
    \/ Tick
    \/ GenerateReportCall

SpecReport == InitReport /\ [][NextReport]_vars

\* ------------------------------------------- direct calls of generate_fix
InitGenerateFix ==
    /\ pc = "call"
    /\ exit_code = -1
    /\ exit_via = ""
    /\ hasApiKey = TRUE
    /\ max_retries \in 0..MaxRetries
    /\ planted_bugs \in Catalogs
    /\ setup_done = TRUE
    /\ snapshot = "present"
    /\ codebase_content = <<"SNAPSHOT">>
    /\ results = InitResults
    /\ bug_results = <<>>
    /\ payload = NoPayload
    /\ attempt = 0
    /\ gen_ret = NoGenRet
    /\ ana_ret = NoAnaRet
    /\ report_file = <<>>
    /\ acct = NoAcct
    /\ analysis = NoAnalysis
    /\ io = [apiCalled |-> FALSE, snapshotReads |-> 1, reportWrites |-> 0,
             snapshotDeletes |-> 0]
    /\ file_state \in [DOMAIN AllFilesOk -> FileStates]
    /\ NoValidatorCall
    /\ NoReportCall
    /\ NoPromptCall
    /\ NoInspectorCall

\* generate_fix(bug_name, codebase_content) for a name that may not be in the
\* catalog; payload keeps the argument
CallGenerateFix ==
    /\ pc = "call"
    /\ \E bug_name \in 1..(MaxBugs + 1) :
         /\ payload' = [NoPayload EXCEPT !.bug_name = bug_name]
         /\ GenerateFixEntry(bug_name)
    /\ UNCHANGED <<exit_code, exit_via, hasApiKey, max_retries, planted_bugs, setup_done,
                   snapshot, codebase_content, results, bug_results, ana_ret,
                   report_file, io, otherVars>>

NextGenerateFix ==
    \/ CallGenerateFix
    \/ GenAttempt
    \/ GenFallThrough

SpecGenerateFix == InitGenerateFix /\ [][NextGenerateFix]_vars

\* ------------------------------------------------ direct calls of Prompts

\* the paths of the blocks of the snapshot of the tests
SnapshotPaths ==
    {"frontend/src/components/TestFile.tsx", "backend/models/AnotherFile.py",
     "irrelevant/file.txt"}

\* the raw content of the file at path p, one chunk
ContentOf(p) == <<"content of ", p>>

\* sequences without repetition over S
InjectiveSeqs(S) ==
    {q \in UNION {[1..n -> S] : n \in 0..Cardinality(S)} :
        \A i, j \in 1..Len(q) : q[i] = q[j] => i = j}

RECURSIVE Concat(_)
Concat(ss) == IF ss = <<>> THEN <<>> ELSE Head(ss) \o Concat(Tail(ss))

\* the header of one block: header line, File line, header line
HeaderTriple(p) == <<HEADER_LINE, NL, FILE, p, NL, HEADER_LINE>>

\* one block as the inspector writes it
Block(p) == HeaderTriple(p) \o <<NL, NL>> \o ContentOf(p) \o <<NL, NL>>

\* the snapshot text of the blocks of the paths ps
SnapshotText(ps) == Concat([k \in 1..Len(ps) |-> Block(ps[k])])

InSeq(x, q) == \E k \in 1..Len(q) : q[k] = x

\* variant: the headers come in the order of the request
extract_in_request_order(blocks, files_to_check) ==
    LET found == SelectSeq(files_to_check, LAMBDA p : InSeq(p, blocks))
    IN  Concat([k \in 1..Len(found) |-> HeaderTriple(found[k]) \o <<NL>>])

\* Prompts._extract_relevant_files on the snapshot of the given blocks
extract_relevant_files(blocks, files_to_check) ==
    LET found == SelectSeq(blocks, LAMBDA p : InSeq(p, files_to_check))
    IN  Concat([k \in 1..Len(found) |-> HeaderTriple(found[k]) \o <<NL>>])

\* the placeholders of the prompt template, each one chunk
PromptPlaceholders ==
    [bug_name |-> "{bug_name}", description |-> "{description}",
     root_cause |-> "{root_cause}", fix_concept |-> "{fix_concept}",
     files |-> "{', '.join(files_to_check)}",
     hints |-> "{self.get_specific_analysis_prompt(bug_name)}",
     relevant_content |-> "{relevant_content}"]

\* Prompts.generate_enhanced_prompt: the string the tests record as its
\* return, the template with its placeholders as written
generate_enhanced_prompt(info, blocks) ==
    <<"INSTRUCTIONS", NL,
      "**BUG NAME:** ", PromptPlaceholders.bug_name, NL,
      "**DESCRIPTION:** ", PromptPlaceholders.description, NL,
      "**ROOT CAUSE:** ", PromptPlaceholders.root_cause, NL,
      "**FIX CONCEPT:** ", PromptPlaceholders.fix_concept, NL,
      "**AFFECTED FILES:** ", PromptPlaceholders.files, NL,
      "**ANALYSIS HINTS:**", NL, PromptPlaceholders.hints, NL,
      "**CODE CONTEXT:**", NL, PromptPlaceholders.relevant_content, NL,
      "**STRICT OUTPUT FORMAT:**", NL, "**OUTPUT EXAMPLE:**", NL>>

\* the bug records of the direct calls
BugInfos ==
    {[name |-> n, description |-> "This is a test bug description.",
      root_cause |-> "Test root cause.", fix_summary |-> "Test fix concept.",
      files |-> fs] :
        n \in {"Test Bug 1", "CSRF Token Bug"},
        fs \in {q \in InjectiveSeqs(SnapshotPaths) : Len(q) \in 1..2}}

InitPrompts ==
    /\ pc = "prompts"
    /\ exit_code = -1
    /\ exit_via = ""
    /\ hasApiKey = TRUE
    /\ max_retries = 1
    /\ planted_bugs = <<>>
    /\ setup_done = FALSE
    /\ snapshot = "absent"
    /\ codebase_content = <<>>
    /\ results = InitResults
    /\ bug_results = <<>>
    /\ payload = NoPayload
    /\ attempt = 0
    /\ gen_ret = NoGenRet
    /\ ana_ret = NoAnaRet
    /\ report_file = <<>>
    /\ acct = NoAcct
    /\ analysis = NoAnalysis
    /\ io = [apiCalled |-> FALSE, snapshotReads |-> 0, reportWrites |-> 0,
             snapshotDeletes |-> 0]
    /\ file_state = AllFilesOk
    /\ NoValidatorCall
    /\ NoReportCall
    /\ bug_info \in BugInfos
    /\ codebase_blocks \in InjectiveSeqs(SnapshotPaths)
    /\ relevant_content = <<>>
    /\ prompt_text = <<>>
    /\ NoInspectorCall

ExtractRelevantFiles ==
    /\ pc = "prompts"
    /\ relevant_content = <<>>
    /\ relevant_content' = <<extract_relevant_files(codebase_blocks, bug_info.files)>>
    /\ UNCHANGED <<runVars, valVars, repVars, file_state, bug_info, codebase_blocks,
                   prompt_text, inspVars>>

GenerateEnhancedPrompt ==
    /\ pc = "prompts"
    /\ prompt_text = <<>>
    /\ prompt_text' = <<generate_enhanced_prompt(bug_info, codebase_blocks)>>
    /\ UNCHANGED <<runVars, valVars, repVars, file_state, bug_info, codebase_blocks,
                   relevant_content, inspVars>>

NextPrompts ==
    \/ ExtractRelevantFiles
    \/ GenerateEnhancedPrompt

SpecPrompts == InitPrompts /\ [][NextPrompts]_vars

\* ------------------------------------------- a run of the inspector
\* the files whose read may fail
UncertainFiles == {<<"app.py">>, <<"src", "b.ts">>, <<"src", "gen", "c.py">>}

\* the entries the patterns of .gitignore may match; the pattern made of
\* output_file matches the output file when output_file is its path below
\* the root, and does not when output_file is another path to it
ProjectIgnorable == {<<"src">>, <<"src", "gen">>, <<"app.py">>, <<"src", "b.ts">>}
OutputPatternMatches == {{}, {OutputFile}}

InitInspector ==
    /\ pc = "inspector"
    /\ exit_code = -1
    /\ exit_via = ""
    /\ hasApiKey = TRUE
    /\ max_retries = 1
    /\ planted_bugs = <<>>
    /\ setup_done = FALSE
    /\ snapshot = "absent"
    /\ codebase_content = <<>>
    /\ results = InitResults
    /\ bug_results = <<>>
    /\ payload = NoPayload
    /\ attempt = 0
    /\ gen_ret = NoGenRet
    /\ ana_ret = NoAnaRet
    /\ report_file = <<>>
    /\ acct = NoAcct
    /\ analysis = NoAnalysis
    /\ io = [apiCalled |-> FALSE, snapshotReads |-> 0, reportWrites |-> 0,
             snapshotDeletes |-> 0]
    /\ file_state = AllFilesOk
    /\ NoValidatorCall
    /\ NoReportCall
    /\ NoPromptCall
    /\ \E sep \in {SLASH, BACKSLASH}, bad \in [UncertainFiles -> ReadStates],
          ign \in SUBSET ProjectIgnorable, out \in OutputPatternMatches :
         tree = [sep |-> sep,
               read |-> [f \in AllFiles |->
                           IF f \in UncertainFiles THEN bad[f]
                           ELSE IF f = <<"src", "img.png">> THEN "binary" ELSE "text"],
               ignored |-> DefaultIgnored \cup out \cup ign]
    /\ walk = [dirs |-> <<>>, files |-> <<>>, started |-> FALSE]
    /\ outfile = <<>>
    /\ files_processed = 0

\* process_directory opens the output file and starts the walk at the root
StartWalk ==
    /\ pc = "inspector"
    /\ ~walk.started
    /\ walk' = [dirs |-> <<RootDir>>, files |-> <<>>, started |-> TRUE]
    /\ outfile' = <<>>
    /\ files_processed' = 0
    /\ UNCHANGED <<runVars, valVars, repVars, promptVars, file_state, tree>>

\* os.walk yields the next directory; the ignored ones among its
\* directories are taken out of dirnames, so the walk does not enter them
EnterDirectory ==
    /\ pc = "inspector"
    /\ walk.started
    /\ walk.files = <<>>
    /\ walk.dirs # <<>>
    /\ LET d == Head(walk.dirs)
           kept == SelectSeq(SubDirs(d), LAMBDA sub : ~MatchFile(sub))
       IN  walk' = [walk EXCEPT !.dirs = kept \o Tail(walk.dirs), !.files = FilesIn(d)]
    /\ UNCHANGED <<runVars, valVars, repVars, promptVars, file_state, tree, outfile,
                   files_processed>>

\* one iteration of the loop over filenames
ProcessFile ==
    /\ pc = "inspector"
    /\ walk.files # <<>>
    /\ LET f == Head(walk.files)
       IN  /\ \E content \in ContentsRead(f) :
                  outfile' = outfile \o (IF MatchFile(f) THEN <<>> ELSE WrittenFor(f, content))
           /\ files_processed' =
                  IF ~MatchFile(f) /\ tree.read[f] = "text" THEN files_processed + 1
                  ELSE files_processed
    /\ walk' = [walk EXCEPT !.files = Tail(walk.files)]
    /\ UNCHANGED <<runVars, valVars, repVars, promptVars, file_state, tree>>

NextInspector ==
    \/ StartWalk
    \/ EnterDirectory
    \/ ProcessFile

SpecInspector == InitInspector /\ [][NextInspector]_vars

\* ================================================================ claims
NonSuccessCount(rs) ==
    Cardinality({k \in 1..Len(rs) : rs[k].status # "solution_generated"})

LoopEntered == setup_done /\ Truthy(codebase_content)

ProcessingPcs == {"loop", "gen_loop", "gen_ret", "ana_loop", "ana_ret", "bug_ret", "cleanup"}

SetupAborts == {"ValueError", "ClientError", "setup_failed", "load_failed"}

Placeholders ==
    { <<"Could not generate intelligent suggestions due to API error.">>,
      <<"Failed to generate intelligent suggestions due to API error.">> }

\* ---------------------------------------------------------------- C1
\* C1: with a valid prompt and max_retries = N >= 1, when every API call of
\* generate_fix returned empty or missing text, generate_fix has made exactly N
\* calls when it returns, never more on the way, and it returns failure: the
\* empty code string and an error entry in the metadata.
C1_RetryBound ==
    (acct.promptOk /\ max_retries >= 1 /\ acct.kinds \subseteq {"empty"}) =>
        /\ acct.genCalls <= max_retries
        /\ pc = "gen_ret" =>
             /\ acct.genCalls = max_retries
             /\ gen_ret.code = <<>>
             /\ "error" \in gen_ret.keys
             /\ Truthy(gen_ret.error)

C1_Witness ==
    /\ pc = "gen_ret"
    /\ acct.promptOk
    /\ max_retries >= 2
    /\ acct.kinds = {"empty"}
    /\ acct.genCalls = max_retries
    /\ gen_ret.code = <<>>

\* ---------------------------------------------------------------- C2
\* C2: when attempt k is the first whose response is non-empty and carries a
\* File line, generate_fix has returned with exactly k calls made (no call
\* k+1 follows), the returned code is that response's stripped text, and the
\* metadata records attempts = k.
C2_EarlySuccess ==
    acct.firstValidAt > 0 =>
        /\ pc \in {"gen_ret", "bug_ret"}
        /\ acct.firstValidAt <= max_retries
        /\ acct.genCalls = acct.firstValidAt
        /\ gen_ret.code = Strip(acct.validText)
        /\ Truthy(gen_ret.code)
        /\ "attempts" \in gen_ret.keys
        /\ gen_ret.attempts = acct.firstValidAt

C2_Witness ==
    /\ pc = "gen_ret"
    /\ acct.firstValidAt >= 2
    /\ acct.firstValidAt < max_retries
    /\ "exception" \in acct.kinds
    /\ gen_ret.attempts = acct.firstValidAt

\* ---------------------------------------------------------------- C3
\* C3: when the fix generator failed and the analyst failed on all of its
\* attempts, process_bug returns normally with a placeholder in ai_suggestions;
\* nothing is raised to run().
AnalystFailed ==
    /\ max_retries >= 1
    /\ acct.promptOk
    /\ acct.genCalls = max_retries
    /\ payload.status = "failed_to_generate_solution"
    /\ acct.anaCalls = max_retries
    /\ ana_ret.keys # {}
    /\ ~ana_ret.success

C3_AnalysisFailureAbsorbed ==
    (AnalystFailed /\ pc # "ana_ret") =>
        /\ pc = "bug_ret"
        /\ payload.ai_suggestions \in Placeholders

\* ---------------------------------------------------------------- C4
\* C4: once run() has entered the per-defect loop, the loop appends one
\* outcome for every defect of the catalog whatever the API does; no per-defect
\* error is raised out of the loop.
\* the defect in hand, if any, got its prompt: its failures are the API's
ApiDecides == payload = NoPayload \/ acct.promptOk

C4_NoDefectAbortsRun ==
    /\ Len(bug_results) <= Len(planted_bugs)
    /\ (LoopEntered /\ max_retries >= 1 /\ ApiDecides /\ pc = "exit") =>
         /\ Len(bug_results) = Len(planted_bugs)
         /\ exit_via # "KeyError"

\* ---------------------------------------------------------------- C5
\* C5: the process exits with status 0 exactly when the run completed
\* reporting and no outcome has a status other than solution_generated
\* (bugs_failed = 0); every other run, also one aborted in setup, exits with 1.
C5_ExitStatus ==
    pc = "exit" =>
        /\ exit_code \in {0, 1}
        /\ exit_code = 0 <=>
             /\ exit_via = "completed"
             /\ Len(report_file) = 1
             /\ NonSuccessCount(bug_results) = 0
             /\ results.bugs_failed = 0

C5_Witness ==
    /\ pc = "exit"
    /\ exit_code = 0
    /\ Len(bug_results) = 2
    /\ results.bugs_fixed = 2

\* ---------------------------------------------------------------- C6
\* C6: a report over an empty outcome sequence (run() over an empty catalog)
\* is produced with a defined success rate; no division fault occurs.
C6_DivisionSafeSummary ==
    (LoopEntered /\ max_retries >= 1 /\ planted_bugs = <<>> /\ pc = "exit") =>
        /\ exit_via # "ZeroDivisionError"
        /\ Len(report_file) = 1

\* ---------------------------------------------------------------- C7
\* C7: the format validator answers false on empty or whitespace-only text,
\* false when no line starts with the File marker, and true whenever some line
\* starts with it, however many fences the text has; fewer than two fences
\* give the warning only.
AllWhitespace(s) == \A k \in 1..Len(s) : s[k] \in Whitespace

LineStarts(s) == {1} \cup {k + 1 : k \in {j \in 1..Len(s) : s[j] = NL}}

SomeLineStartsWithFile(s) == \E k \in LineStarts(s) \cap (1..Len(s)) : s[k] = FILE

C7_ValidatorTruthTable ==
    vresult # <<>> =>
        LET r == vresult[1]
        IN  /\ AllWhitespace(vtext) => ~r.valid
            /\ ~SomeLineStartsWithFile(vtext) => ~r.valid
            /\ SomeLineStartsWithFile(vtext) => r.valid
            /\ r.warned <=> (SomeLineStartsWithFile(vtext) /\ FenceCount(vtext) < 2)

C7_Witness ==
    /\ vresult # <<>>
    /\ vresult[1].valid
    /\ vresult[1].warned
    /\ FenceCount(vtext) = 1
    /\ vtext[1] # FILE

C9_SetupFailuresAbort ==
    /\ (pc = "exit" /\ exit_via \in SetupAborts) =>
         /\ ~io.apiCalled
         /\ bug_results = <<>>
         /\ payload = NoPayload
         /\ results = InitResults
         /\ report_file = <<>>
         /\ io.reportWrites = 0
         /\ exit_code = 1
    /\ ~hasApiKey => (pc \in {"main", "exit"} /\ exit_via \in {"", "ValueError"})
    /\ (pc = "exit" /\ ~setup_done) => exit_via \in {"ValueError", "ClientError", "setup_failed"}
    /\ (pc = "exit" /\ setup_done /\ ~Truthy(codebase_content)) => exit_via = "load_failed"
    /\ Truthy(codebase_content) => (setup_done /\ io.snapshotReads = 1)
    /\ (pc \in ProcessingPcs \/ io.apiCalled \/ bug_results # <<>>
          \/ payload # NoPayload \/ report_file # <<>>) => LoopEntered

C9_Witness ==
    /\ pc = "exit"
    /\ exit_via = "load_failed"
    /\ setup_done
    /\ snapshot = "empty"
    /\ ~io.apiCalled

\* ---------------------------------------------------------------- C10
\* C10: the analyst is invoked once for a defect exactly when the outcome's
\* status is not solution_generated, never for a successful defect;
\* ai_suggestions is non-empty only on non-success outcomes; and when all
\* generator attempts failed and the analyst returns non-empty text, the
\* outcome is failed_to_generate_solution with that text as ai_suggestions and
\* the run counts it as failed.
GenerationExhausted ==
    acct.promptOk /\ acct.genCalls = max_retries /\ "valid" \notin acct.kinds

SectionShows(sec, r) ==
    /\ sec.bug_name = r.bug_name
    /\ sec.status = r.status
    /\ sec.code = r.generated_code_solution

\* C11: every text returned by generate_report has exactly one section per
\* outcome of its input, numbered 1..n, and section k is the section of the
\* k-th outcome of the input, whatever the order of the names in the input.
C11_OrderPreserved ==
    \A i \in 1..Len(renders) :
        ~renders[i].raised =>
            LET sections == renders[i].text[1].body.sections
            IN  /\ Len(sections) = Len(bug_results)
                /\ \A k \in 1..Len(sections) :
                       /\ sections[k].number = k
                       /\ SectionShows(sections[k], bug_results[k])

\* a report of two outcomes of different status whose names are not in the
\* order of the catalog
C11_Witness ==
    /\ Len(renders) >= 1
    /\ ~renders[1].raised
    /\ Len(bug_results) >= 2
    /\ bug_results[1].bug_name > bug_results[2].bug_name
    /\ bug_results[1].status # bug_results[2].status

\* ---------------------------------------------------------------- C12
CountStatus(rs, S) == Cardinality({k \in 1..Len(rs) : rs[k].status \in S})

\* C12: in every text returned for a non-empty input, the success count is
\* the number of outcomes with status solution_generated, the failure count
\* is the number of outcomes with one of the two other statuses, the two
\* sum to the total, and the recommendations are the all-succeeded ones
\* exactly when the failure count is 0.
C12_SummaryCounts ==
    \A i \in 1..Len(renders) :
        (~renders[i].raised /\ Len(bug_results) > 0) =>
            LET body == renders[i].text[1].body
            IN  /\ body.solution_generated_count =
                       CountStatus(bug_results, {"solution_generated"})
                /\ body.failed_count =
                       CountStatus(bug_results, {"failed_to_generate_solution", "error"})
                /\ body.solution_generated_count + body.failed_count = body.total
                /\ body.total = Len(bug_results)
                /\ (body.recommendations = "all_succeeded") <=> (body.failed_count = 0)

\* a report over an outcome of status error next to a generated solution
C12_Witness ==
    /\ Len(renders) >= 1
    /\ ~renders[1].raised
    /\ CountStatus(bug_results, {"error"}) >= 1
    /\ CountStatus(bug_results, {"solution_generated"}) >= 1

\* ---------------------------------------------------------------- C13
\* the text without its Generated line
WithoutTimestamp(r) ==
    [raised |-> r.raised,
     text |-> [k \in 1..Len(r.text) |->
                  [r.text[k] EXCEPT !.header = [@ EXCEPT !.generated = 0]]]]

ContainsRun(s, q) ==
    \E k \in 0..(Len(s) - Len(q)) : \A i \in 1..Len(q) : s[k + i] = q[i]

\* the position of the chunk x in s, 0 when it is not there
PositionOf(x, s) == IF InSeq(x, s) THEN CHOOSE k \in 1..Len(s) : s[k] = x ELSE 0

Occurrences(x, s) == Cardinality({k \in 1..Len(s) : s[k] = x})

RECURSIVE CommaJoined(_)
CommaJoined(fs) ==
    IF Len(fs) <= 1 THEN fs ELSE <<Head(fs), ", ">> \o CommaJoined(Tail(fs))

PlaceholderTokens == {PromptPlaceholders[f] : f \in DOMAIN PromptPlaceholders}

\* C15: the string returned by generate_enhanced_prompt holds the name, the
\* description, the root cause, the fix summary and the comma-joined files
\* of the bug and the relevant excerpts, and no placeholder of the template.
C15_PromptComplete ==
    prompt_text # <<>> =>
        LET text == prompt_text[1]
        IN  /\ InSeq(bug_info.name, text)
            /\ InSeq(bug_info.description, text)
            /\ InSeq(bug_info.root_cause, text)
            /\ InSeq(bug_info.fix_summary, text)
            /\ ContainsRun(text, CommaJoined(bug_info.files))
            /\ ContainsRun(text, extract_relevant_files(codebase_blocks, bug_info.files))
            /\ \A k \in 1..Len(text) : text[k] \notin PlaceholderTokens

\* ---------------------------------------------------------------- C16
\* generate_fix has returned
GenReturned == gen_ret.keys # {}

\* C16: no return of generate_fix is a raised exception; in its loop every
\* API call, raising or not, has used up one attempt of max_retries, an
\* exception before the last attempt leaves the loop running, and a return
\* after a call that raised comes on the last attempt and is a failure
\* whose error is the message of that exception.
C16_HardApiErrors ==
    /\ ~gen_ret.raised
    /\ exit_via \in {"", "completed", "KeyError", "ZeroDivisionError"} \cup SetupAborts
    /\ pc = "gen_loop" =>
           /\ acct.genCalls = attempt
           /\ attempt <= max_retries
           /\ acct.lastError # <<>> => attempt < max_retries
    /\ (GenReturned /\ acct.lastError # <<>>) =>
           /\ acct.genCalls = max_retries
           /\ gen_ret.code = <<>>
           /\ gen_ret.keys = {"error"}
           /\ gen_ret.error = <<"API call failed: ">> \o acct.lastError

\* generate_fix returned after an empty response and then an exception on
\* the last of at least two attempts
C16_Witness ==
    /\ GenReturned
    /\ acct.lastError # <<>>
    /\ max_retries >= 2
    /\ "empty" \in acct.kinds

\* ---------------------------------------------------------------- C17
\* the name is not in the catalog, or the prompt builder raised, or it
\* returned nothing but whitespace or a text with the marker of an error
NoUsablePrompt ==
    \/ ~InSeq(payload.bug_name, planted_bugs)
    \/ /\ acct.prompt_result # <<>>
       /\ \/ acct.prompt_result[1].raised
          \/ AllWhitespace(acct.prompt_result[1].prompt)
          \/ InSeq("Error:", acct.prompt_result[1].prompt)

\* C17: once generate_fix was called without a usable prompt it has
\* returned a failure, empty code with an error in the metadata, and no API
\* call has been made.
C17_NoCallWithoutPrompt ==
    (pc # "call" /\ NoUsablePrompt) =>
        /\ pc = "gen_ret"
        /\ acct.genCalls = 0
        /\ ~io.apiCalled
        /\ gen_ret.code = <<>>
        /\ "error" \in gen_ret.keys
        /\ Truthy(gen_ret.error)

\* a call for a known bug whose prompt came back as whitespace
C17_Witness ==
    /\ pc = "gen_ret"
    /\ InSeq(payload.bug_name, planted_bugs)
    /\ max_retries >= 1
    /\ acct.prompt_result # <<>>
    /\ ~acct.prompt_result[1].raised
    /\ acct.prompt_result[1].prompt # <<>>
    /\ AllWhitespace(acct.prompt_result[1].prompt)

\* ---------------------------------------------------------------- C18
\* the analyst has returned
AnaReturned == ana_ret.keys # {}

\* C18: the analyst makes at most max_retries API calls; while its loop runs
\* every call so far raised or returned no text and used up one attempt; the
\* first call that returns text ends the loop with success and that text,
\* stripped, whether or not it has a File line; without such a call the
\* analyst returns after max_retries calls.
C18_AnalystLoop ==
    /\ acct.anaCalls <= max_retries
    /\ pc = "ana_loop" =>
           /\ acct.anaCalls = attempt
           /\ acct.anaText = <<>>
           /\ acct.anaKinds \subseteq {"exception", "empty"}
    /\ acct.anaText # <<>> =>
           /\ AnaReturned
           /\ ana_ret.success
           /\ ana_ret.analysis = Strip(acct.anaText)
    /\ (AnaReturned /\ acct.anaText = <<>>) =>
           /\ acct.anaCalls = max_retries
           /\ ~ana_ret.success

\* the analyst succeeded on its third call with a text that has no File
\* line, after an exception and an empty response
C18_Witness ==
    /\ AnaReturned
    /\ ana_ret.success
    /\ Truthy(ana_ret.analysis)
    /\ ~SomeLineStartsWithFile(ana_ret.analysis)
    /\ acct.anaKinds = {"exception", "empty", "invalid"}
    /\ acct.anaCalls = 3

\* ---------------------------------------------------------------- C19
\* C19: the snapshot is read, the report written and the snapshot deleted at
\* most once each; every defect is processed after the read; the report is
\* written when every defect has its outcome; the snapshot is deleted after
\* the report was written; a completed run has done each exactly once.
C19_Lifecycle ==
    /\ io.snapshotReads <= 1
    /\ io.reportWrites <= 1
    /\ io.snapshotDeletes <= 1
    /\ payload # NoPayload => (io.snapshotReads = 1 /\ io.reportWrites = 0)
    /\ bug_results # <<>> => io.snapshotReads = 1
    /\ io.reportWrites = 1 =>
           (Len(bug_results) = Len(planted_bugs) /\ Len(report_file) = 1)
    /\ io.snapshotDeletes = 1 => io.reportWrites = 1
    /\ exit_via = "completed" =>
           /\ io.snapshotReads = 1
           /\ io.reportWrites = 1
           /\ io.snapshotDeletes = 1
           /\ snapshot = "absent"

\* a run over two defects that reached completion
C19_Witness ==
    /\ exit_via = "completed"
    /\ Len(bug_results) = 2
    /\ io.snapshotDeletes = 1

\* ---------------------------------------------------------------- C20
\* the entry of a path records that the file could not be analysed
ErrorEntry(entry) == "error" \in entry.keys \/ entry.syntax_errors # <<>>

\* C20: for a bug of the catalog analyze_bug returns a result without the
\* key error, with one entry for each affected path, in which exactly the
\* paths whose file is missing, unreadable, unsupported or unparsable have
\* an error entry; generate_fix then builds the prompt, and with a usable
\* prompt and max_retries >= 1 it does not return before an API call.
C20_PathErrorsAbsorbed ==
    (pc # "call" /\ InSeq(payload.bug_name, planted_bugs)) =>
        /\ "error" \notin analysis.keys
        /\ Len(analysis.static_analysis) = Len(BugFiles)
        /\ \A k \in 1..Len(BugFiles) :
               /\ analysis.static_analysis[k].path = BugFiles[k]
               /\ ErrorEntry(analysis.static_analysis[k].entry)
                      <=> file_state[BugFiles[k]] # "ok"
        /\ acct.prompt_result # <<>>
        /\ (~NoUsablePrompt /\ max_retries >= 1 /\ pc = "gen_ret") => acct.genCalls >= 1

\* generate_fix called the API for a bug whose first file is missing and
\* whose second file was analysed
C20_Witness ==
    /\ pc = "gen_ret"
    /\ acct.genCalls >= 1
    /\ file_state[BugFiles[1]] = "missing"
    /\ file_state[BugFiles[2]] = "ok"
    /\ analysis.static_analysis[1].entry.keys = {"error"}

\* ---------------------------------------------------------------- C21
Statuses == {"solution_generated", "failed_to_generate_solution", "error"}

\* C21: every outcome in the run results, and every payload that
\* process_bug is about to return, has one of the three statuses; the
\* status initial is seen only inside process_bug before generate_fix
\* has returned.
C21_StatusEnumerated ==
    /\ \A k \in 1..Len(bug_results) : bug_results[k].status \in Statuses
    /\ pc \in {"ana_loop", "ana_ret", "bug_ret"} => payload.status \in Statuses
    /\ payload.status = "initial" => pc \in {"gen_loop", "gen_ret"}
    /\ \A i \in 1..Len(report_file) :
           \A k \in 1..Len(report_file[i].body.sections) :
               report_file[i].body.sections[k].status \in Statuses

\* the results hold a generated solution and a failure
C21_Witness ==
    /\ Len(bug_results) = 2
    /\ bug_results[1].status = "failed_to_generate_solution"
    /\ bug_results[2].status = "solution_generated"

\* ---------------------------------------------------------------- C22
\* C22: the outcomes are those of the first bugs of the catalog in its
\* order; the bug in process is the next of the catalog; the analyst is
\* called only after generate_fix has returned; and API calls are counted
\* only for the bug in process, whose counts start from zero.
C22_Sequential ==
    /\ Len(bug_results) <= Len(planted_bugs)
    /\ \A k \in 1..Len(bug_results) : bug_results[k].bug_name = planted_bugs[k]
    /\ payload # NoPayload =>
           /\ Len(bug_results) < Len(planted_bugs)
           /\ payload.bug_name = planted_bugs[Len(bug_results) + 1]
    /\ pc \in {"gen_loop", "gen_ret"} => (acct.anaCalls = 0 /\ acct.anaInvocations = 0)
    /\ acct.anaInvocations > 0 =>
           (GenReturned /\ pc \in {"ana_loop", "ana_ret", "bug_ret", "exit"})
    /\ acct.anaInvocations <= 1
    /\ (acct.genCalls > 0 \/ acct.anaCalls > 0) => payload # NoPayload
    /\ \A i \in 1..Len(report_file) :
           \A k \in 1..Len(report_file[i].body.sections) :
               report_file[i].body.sections[k].bug_name = planted_bugs[k]

\* the second bug is with the analyst after calls of the generator, the
\* outcome of the first bug being recorded
C22_Witness ==
    /\ Len(bug_results) = 1
    /\ pc = "ana_loop"
    /\ acct.genCalls >= 2
    /\ acct.anaCalls >= 1

\* ---------------------------------------------------------------- C23
\* the generator slept once less than it called when all its calls failed
GeneratorSleepsBetweenAttempts ==
    (GenReturned /\ acct.promptOk /\ gen_ret.code = <<>> /\ max_retries >= 1) =>
        /\ acct.genCalls = max_retries
        /\ acct.genSleeps = max_retries - 1

\* C23: a call of the generator or of the analyst whose max_retries >= 1
\* attempts all failed has slept max_retries - 1 times, once after every
\* failed attempt but the last.
C23_SleepDiscipline ==
    /\ GeneratorSleepsBetweenAttempts
    /\ (AnaReturned /\ ~ana_ret.success /\ acct.promptOk /\ max_retries >= 1) =>
           /\ acct.anaCalls = max_retries
           /\ acct.anaSleeps = max_retries - 1

\* ---------------------------------------------------------------- C24
\* the error that the kind of the last attempt stands for
ErrorOfFinalAttempt(kind, msg) ==
    IF kind = "exception" THEN <<"API call failed: ">> \o msg
    ELSE IF kind = "empty" THEN <<"No response from API after max retries">>
    ELSE <<"No valid code snippet generated after max retries">>

FallThroughError == <<"Failed to generate fix after all retries">>

\* C24: a failure that generate_fix returns after API calls comes after
\* max_retries calls and its error is the one of the kind of the last call,
\* whatever the kinds of the calls before; the fall-through error is
\* returned exactly when the prompt was usable and max_retries is 0, and
\* then no API call was made.
C24_FinalAttemptRetained ==
    (GenReturned /\ acct.promptOk /\ gen_ret.code = <<>>) =>
        /\ max_retries >= 1 =>
               /\ acct.genCalls = max_retries
               /\ acct.lastKind \in {"exception", "empty", "invalid"}
               /\ gen_ret.error = ErrorOfFinalAttempt(acct.lastKind, acct.lastError)
               /\ gen_ret.error # FallThroughError
        /\ max_retries = 0 =>
               /\ acct.genCalls = 0
               /\ gen_ret.error = FallThroughError

\* the last of three attempts returned nothing after an exception and an
\* invalid text
C24_Witness ==
    /\ GenReturned
    /\ acct.promptOk
    /\ gen_ret.code = <<>>
    /\ acct.lastKind = "empty"
    /\ acct.kinds = {"exception", "invalid", "empty"}

\* ---------------------------------------------------------------- C26
\* C26: generate_fix returns code exactly when one of its API calls gave a
\* text that passes the format validation, and then that text; every failed
\* outcome has empty generated code, and so has the payload whose code the
\* analyst is given as the previous code.
C26_AllOrNothing ==
    /\ GenReturned =>
           /\ Truthy(gen_ret.code) <=> acct.firstValidAt > 0
           /\ Truthy(gen_ret.code) => gen_ret.code = Strip(acct.validText)
           /\ "error" \in gen_ret.keys <=> gen_ret.code = <<>>
    /\ pc \in {"ana_loop", "ana_ret"} => payload.generated_code_solution = <<>>
    /\ \A k \in 1..Len(bug_results) :
           bug_results[k].status = "failed_to_generate_solution"
               => bug_results[k].generated_code_solution = <<>>

\* a failed outcome whose generator saw a non-empty text of invalid format
\* on an attempt before its last
C26_Witness ==
    /\ pc = "ana_loop"
    /\ payload.status = "failed_to_generate_solution"
    /\ "invalid" \in acct.kinds
    /\ acct.lastKind = "exception"

\* ---------------------------------------------------------------- C25
\* the counters agree with the outcomes appended so far
CountersMatchOutcomes ==
    /\ results.bugs_processed = results.bugs_fixed + results.bugs_failed
    /\ results.bugs_fixed = CountStatus(bug_results, {"solution_generated"})
    /\ pc # "bug_ret" => results.bugs_processed = Len(bug_results)
    /\ pc \in {"cleanup", "exit"} /\ Len(report_file) = 1 =>
           /\ results.bugs_processed = Len(planted_bugs)
           /\ report_file[1].body.failed_count = results.bugs_failed
           /\ report_file[1].body.solution_generated_count = results.bugs_fixed
    /\ exit_via = "completed" => (exit_code = 0 <=> results.bugs_failed = 0)

\* no counter decreases, none grows by more than 1 in a step, and they
\* change only when an outcome is appended
CountersStep ==
    /\ results'.bugs_processed - results.bugs_processed \in {0, 1}
    /\ results'.bugs_fixed - results.bugs_fixed \in {0, 1}
    /\ results'.bugs_failed - results.bugs_failed \in {0, 1}
    /\ results' # results <=> Len(bug_results') = Len(bug_results) + 1

\* C25: after every iteration of the loop bugs_processed = bugs_fixed +
\* bugs_failed = the number of outcomes, bugs_fixed is the number of
\* outcomes with status solution_generated, the counters grow by at most 1
\* per defect and never decrease, and at reporting bugs_processed is the
\* size of the catalog and the failure count of the report is bugs_failed,
\* which decides the exit status.
C25_CounterConsistency == []CountersMatchOutcomes /\ [][CountersStep]_vars

\* a completed run over two defects with one failure and one solution
C25_Witness ==
    /\ exit_via = "completed"
    /\ results = [bugs_processed |-> 2, bugs_fixed |-> 1, bugs_failed |-> 1]
    /\ exit_code = 1

\* ---------------------------------------------------------------- C27
WellFormedOutcome(r) ==
    /\ r.fix_summary # <<>> <=> r.status = "solution_generated"
    /\ r.error = <<>> <=> r.status = "solution_generated"
    /\ r.status = "solution_generated" =>
           /\ Truthy(r.generated_code_solution)
           /\ r.fix_summary[1].corrected_code_snippet = r.generated_code_solution
           /\ r.fix_summary[1].bug_name = r.bug_name

\* C27: in every outcome that process_bug returns the fix_summary view is
\* there exactly when the status is solution_generated, the error is empty
\* exactly when the status is solution_generated, and an outcome of status
\* solution_generated has non-empty generated code.
C27_OutcomeWellFormed ==
    /\ pc = "bug_ret" => WellFormedOutcome(payload)
    /\ \A k \in 1..Len(bug_results) : WellFormedOutcome(bug_results[k])

\* process_bug is about to return a failure that has the suggestions of the
\* analyst, after an outcome with a solution
C27_Witness ==
    /\ pc = "bug_ret"
    /\ payload.status = "failed_to_generate_solution"
    /\ Truthy(payload.ai_suggestions)
    /\ Len(bug_results) = 1
    /\ bug_results[1].status = "solution_generated"

\* ---------------------------------------------------------------- C28
\* the API calls the run may still make: 2 * max_retries for every bug
\* without an outcome, less the calls made for the bug in process
CallsLeft ==
    2 * max_retries * (Len(planted_bugs) - Len(bug_results))
        - (acct.genCalls + acct.anaCalls)

\* the steps process_bug may still take from where it is
StepsLeftInBug ==
    CASE pc = "gen_loop" -> (max_retries - attempt) + max_retries + 5
      [] pc = "gen_ret" -> max_retries + 4
      [] pc = "ana_loop" -> (max_retries - attempt) + 3
      [] pc = "ana_ret" -> 2
      [] pc = "bug_ret" -> 1

StepsPerBug == 2 * max_retries + 7

\* an upper bound of the steps the run may still take
StepsLeft ==
    CASE pc = "main" -> Len(planted_bugs) * StepsPerBug + 5
      [] pc = "run" -> Len(planted_bugs) * StepsPerBug + 4
      [] pc = "load" -> Len(planted_bugs) * StepsPerBug + 3
      [] pc = "loop" -> (Len(planted_bugs) - Len(bug_results)) * StepsPerBug + 2
      [] pc = "cleanup" -> 1
      [] pc = "exit" -> 0
      [] OTHER -> (Len(planted_bugs) - Len(bug_results) - 1) * StepsPerBug + 2
                      + StepsLeftInBug

\* the calls stay within the budget and the run can go on until it exits
WithinBudget ==
    /\ acct.genCalls <= max_retries
    /\ acct.anaCalls <= max_retries
    /\ CallsLeft >= 0
    /\ CallsLeft <= 2 * max_retries * Len(planted_bugs)
    /\ StepsLeft >= 0
    /\ pc # "exit" => ENABLED Next
    /\ pc = "exit" => exit_via \in SetupAborts
                          \cup {"completed", "KeyError", "ZeroDivisionError"}

\* every step uses up the bound of the steps, and every API call one call
\* of the budget, which never grows
WorkStep ==
    /\ StepsLeft' < StepsLeft
    /\ CallsLeft' <= CallsLeft
    /\ io'.apiCalled /\ (acct'.genCalls > acct.genCalls \/ acct'.anaCalls > acct.anaCalls)
           => CallsLeft' = CallsLeft - 1

Loaded == setup_done /\ pc # "load"

\* C29: once the snapshot was loaded, a file that was absent, unreadable or
\* empty has given the empty content and the run has ended with status 1,
\* no defect processed, no API call, no report, and the file as it was
\* found, never deleted; only an absent file was not read.
C29_EmptySnapshotAborts ==
    /\ (Loaded /\ snapshot \in {"unreadable", "empty"}) =>
           /\ exit_via = "load_failed"
           /\ io.snapshotReads = 1
    /\ (Loaded /\ snapshot = "absent" /\ io.snapshotDeletes = 0) =>
           /\ exit_via = "load_failed"
           /\ io.snapshotReads = 0
    /\ exit_via = "load_failed" =>
           /\ snapshot # "present"
           /\ codebase_content = <<>>
           /\ pc = "exit"
           /\ exit_code = ExitStatus(FALSE)
           /\ bug_results = <<>>
           /\ payload = NoPayload
           /\ ~io.apiCalled
           /\ report_file = <<>>
           /\ io.reportWrites = 0
           /\ io.snapshotDeletes = 0

\* the run ended on a snapshot file that exists and cannot be read, and
\* the file is still there
C29_Witness ==
    /\ exit_via = "load_failed"
    /\ snapshot = "unreadable"
    /\ io.snapshotReads = 1
    /\ io.snapshotDeletes = 0

\* ---------------------------------------------------------------- C30
\* the files of the tree in the order of the walk
FilesInWalkOrder ==
    << <<"app.py">>, OutputFile, <<"node_modules", "m.js">>, <<"src", "b.ts">>,
       <<"src", "img.png">>, <<"src", "gen", "c.py">> >>

\* some directory above the file is ignored
UnderIgnoredDir(f) ==
    \E n \in 1..(Len(f) - 1) : SubSeq(f, 1, n) \in tree.ignored

\* the file is to have a block; the output file is to have none
HasBlock(f) ==
    /\ f # OutputFile
    /\ f \notin tree.ignored /\ ~UnderIgnoredDir(f) /\ tree.read[f] = "text"

RECURSIVE SlashJoined(_)
SlashJoined(components) ==
    IF Len(components) <= 1 THEN components
    ELSE <<Head(components), "/">> \o SlashJoined(Tail(components))

\* the whole block of a file
WholeBlock(f) ==
    <<HEADER_LINE, NL, FILE>> \o SlashJoined(f) \o <<NL, HEADER_LINE, NL, NL>>
        \o <<"content", f[Len(f)], NL, NL>>

ExpectedOutput ==
    LET files == SelectSeq(FilesInWalkOrder, HasBlock)
    IN  Concat([k \in 1..Len(files) |-> WholeBlock(files[k])])

IsPrefix(p, q) == Len(p) <= Len(q) /\ SubSeq(q, 1, Len(p)) = p

WalkDone == walk.started /\ walk.dirs = <<>> /\ walk.files = <<>>

\* C30: what process_directory has written is at every moment a run of
\* whole blocks, the first ones of the blocks of the files that are read as
\* text and are neither ignored nor below an ignored directory, in the order
\* of the walk and with paths joined by slashes; the output file has no
\* block; the count of processed files is the number of blocks written; at
\* the end of the walk all those blocks and nothing else are there.
C30_WholeBlocks ==
    /\ IsPrefix(outfile, ExpectedOutput)
    /\ files_processed = Occurrences(FILE, outfile)
    /\ outfile # <<>> => SubSeq(outfile, Len(outfile) - 1, Len(outfile)) = <<NL, NL>>
    /\ ~InSeq(BACKSLASH, outfile)
    /\ WalkDone =>
           /\ outfile = ExpectedOutput
           /\ files_processed = Len(SelectSeq(FilesInWalkOrder, HasBlock))

\* the same, for the calls in which the pattern made of output_file
\* matches the output file
WholeBlocksWhenOutputMatched == OutputFile \in tree.ignored => C30_WholeBlocks

\* the output file has been given a block of its own
OutputFileHasBlock ==
    /\ WalkDone
    /\ ContainsRun(<<FILE>> \o SlashJoined(OutputFile) \o <<NL>>, outfile)

====
